---- MODULE Spec2Model ----
(***************************************************************************)
(* Model of robifr/tic-tac-toe (src/main.cpp): the Board (grid, players,   *)
(* turn holder, scoring), its two variants ClassicBoard and FrenzyBoard,   *)
(* the chain detection of findConnectedCell and the Bot's cell selection.  *)
(***************************************************************************)
EXTENDS Integers, Sequences, FiniteSets, TLC

VARIABLES
    variant,     \* "Classic" (ClassicBoard) or "Frenzy" (FrenzyBoard)
    gridSize,    \* Board::_gridSize
    grid,        \* Board::_grid, grid[row][column], "" is an empty cell
    players,     \* Board::_players, each with number, marker, score, lastScore
    playerTurn,  \* Board::_playerTurn as a player number, 0 is nullptr
    call,        \* the name of the last function called, "" before any call
    args,        \* the arguments of the last call, where a claim needs them
    ret,         \* what the last call returned: <<value>>, or <<>> for void
    turns,       \* history: the turn holders togglePlayerTurn set since reset;
                 \* in main, the players that moved since reset
    pc           \* the line of main the program is at, 0 outside main

vars == <<variant, gridSize, grid, players, playerTurn, call, args, ret, turns, pc>>

\* The board proper: everything but the last return value.
board == <<variant, gridSize, grid, players, playerTurn>>

----------------------------------------------------------------------------
\* Program constants.

\* std::numeric_limits<int>::max(), the default maxChain.
IntMax == 2147483647

\* Screen::requirePlayers accepts totalPlayers >= 2.
MinPlayers == 2

\* Screen::requireGridSize accepts gridSize >= 3.
MinGridSize == 3

\* The empty std::string of a cell nobody marked.
Empty == ""

\* The markers the players type in, one character each and all different;
\* player number n gets MarkerOf[n].
MarkerOf == <<"X", "O", "Z", "W", "V", "U", "T">>

----------------------------------------------------------------------------
\* Bounds of the model.

\* markCellByNumber is tried with cell numbers from -InputPad up to
\* gridSize * gridSize - 1 + InputPad.
InputPad == 3

\* SpecOpen builds boards of MinPlayers up to MaxPlayers players.
MaxPlayers == 3

\* SpecOpen marks at most MaxMarks cells between two resets.
MaxMarks == 2

\* SpecResult gives every player a score of 0 up to MaxScore.
MaxScore == 5

\* SpecChain starts from the grids of at most MaxChainMarks marked cells.
MaxChainMarks == 6

\* SpecCalls marks at most MaxCallMarks cells between two resets.
MaxCallMarks == 3

\* SpecBot starts from the grids of at most MaxBotMarks marked cells.
MaxBotMarks == 6

\* SpecCell builds boards of grid size MinGridSize up to MaxGridSize.
MaxGridSize == 5

\* SpecCount starts from the grids of at most MaxCountMarks marked cells and
\* calls with a maxChain of 0 up to MaxMaxChain, or the default.
MaxCountMarks == 2

MaxMaxChain == 3

----------------------------------------------------------------------------
\* C++ integer division and remainder truncate toward zero.

CDiv(a, b) == IF a >= 0 THEN a \div b ELSE -((-a) \div b)

CMod(a, b) == a - b * CDiv(a, b)

\* A maximum that is always its first argument.
MaxIsFirst(a, b) == a

Max(a, b) == IF a >= b THEN a ELSE b

----------------------------------------------------------------------------
\* Players.

totalPlayers == Len(players)

PlayerNumbers == 1..totalPlayers

\* Player::Player and Bot::Bot, with Player::_score = 0 and Player::_lastScore = 0;
\* bot tells a Bot from a plain Player.
NewPlayer(n, bot) ==
    [number |-> n, marker |-> MarkerOf[n], bot |-> bot, score |-> 0, lastScore |-> 0]

\* Screen::requirePlayers: the players are numbered players.size() + 1 in turn;
\* bots[i] is the answer to "As a bot?" for player i.
requirePlayers(bots) == [i \in 1..Len(bots) |-> NewPlayer(i, bots[i])]

\* n players, none of them a bot.
Humans(n) == [i \in 1..n |-> FALSE]

Markers == {players[i].marker : i \in PlayerNumbers}

\* A slip in Player::setScore: the two assignments in the other order.
setScoreLastIsNew(p, score) == [p EXCEPT !.score = score, !.lastScore = score]

\* A setScore that keeps the gain of the last mark and not the sum.
setScoreKeepsGain(p, score) == [p EXCEPT !.lastScore = p.score, !.score = score - p.score]

\* Player::setScore.
setScore(p, score) == [p EXCEPT !.lastScore = p.score, !.score = score]

\* A slip in Player::reset: _lastScore is left alone.
PlayerResetScoreOnly(p) == [p EXCEPT !.score = 0]

\* Player::reset.
PlayerReset(p) == [p EXCEPT !.score = 0, !.lastScore = 0]

----------------------------------------------------------------------------
\* Grid and positions.

Rows == 0..(gridSize - 1)

CellNumbers == 0..(gridSize * gridSize - 1)

columnByCellNumber(cellNumber) == CMod(cellNumber, gridSize)

rowByCellNumber(cellNumber) == CDiv(cellNumber, gridSize)

\* A numbering that goes down the columns.
cellNumberByPositionColumnMajor(row, column) == column * gridSize + row

cellNumberByPosition(row, column) == row * gridSize + column

\* The grid Board::Board and Board::reset build: every cell an empty string.
EmptyGrid(n) == [row \in 0..(n - 1) |-> [column \in 0..(n - 1) |-> Empty]]

\* Board::findAvailableCellNumbers: the std::set of the empty cells' numbers.
findAvailableCellNumbers ==
    {cellNumberByPosition(row, column) : <<row, column>> \in
        {rc \in Rows \X Rows : grid[rc[1]][rc[2]] = Empty}}

----------------------------------------------------------------------------
\* Chains.

\* Board::_countChainByDirection: a do-while, so the first step is taken
\* before maxChain is looked at.
RECURSIVE ChainLoop(_, _, _, _, _, _, _, _)
ChainLoop(g, row, column, deltaRow, deltaColumn, targetMarker, maxChain, chain) ==
    LET r == row + deltaRow
        c == column + deltaColumn
    IN  IF r < 0 \/ r >= gridSize \/ c < 0 \/ c >= gridSize
        THEN chain
        ELSE IF g[r][c] # targetMarker
        THEN chain
        ELSE IF chain + 1 < maxChain
        THEN ChainLoop(g, r, c, deltaRow, deltaColumn, targetMarker, maxChain, chain + 1)
        ELSE chain + 1

countChainByDirection(g, row, column, deltaRow, deltaColumn, targetMarker, maxChain) ==
    ChainLoop(g, row, column, deltaRow, deltaColumn, targetMarker, maxChain, 0)

\* A count that sees no chain.
countNoChain(g, row, column, targetMarker, maxChain) == 0

countCurrentTopChain(g, row, column, targetMarker, maxChain) ==
    countChainByDirection(g, row, column, -1, 0, targetMarker, maxChain)

countCurrentBottomChain(g, row, column, targetMarker, maxChain) ==
    countChainByDirection(g, row, column, 1, 0, targetMarker, maxChain)

countCurrentLeftChain(g, row, column, targetMarker, maxChain) ==
    countChainByDirection(g, row, column, 0, -1, targetMarker, maxChain)

countCurrentRightChain(g, row, column, targetMarker, maxChain) ==
    countChainByDirection(g, row, column, 0, 1, targetMarker, maxChain)

countTopLeftChain(g, row, column, targetMarker, maxChain) ==
    countChainByDirection(g, row, column, -1, -1, targetMarker, maxChain)

countTopRightChain(g, row, column, targetMarker, maxChain) ==
    countChainByDirection(g, row, column, -1, 1, targetMarker, maxChain)

countBottomLeftChain(g, row, column, targetMarker, maxChain) ==
    countChainByDirection(g, row, column, 1, -1, targetMarker, maxChain)

countBottomRightChain(g, row, column, targetMarker, maxChain) ==
    countChainByDirection(g, row, column, 1, 1, targetMarker, maxChain)

\* A slip in Board::findConnectedCell: the current cell is not counted.
AxisTotalWithoutCell(chain) == IF chain >= 2 THEN chain ELSE 0

\* A findConnectedCell that counts an axis from a chain of one cell on.
AxisTotalFromOne(chain) == IF chain >= 1 THEN chain + 1 ELSE 0

\* total += chain >= 2 ? chain + 1 : 0
AxisTotal(chain) == IF chain >= 2 THEN chain + 1 ELSE 0

\* Board::findConnectedCell.
findConnectedCell(g, row, column, targetMarker, maxChain) ==
    LET verticalChain ==
            countCurrentTopChain(g, row, column, targetMarker, maxChain)
            + countCurrentBottomChain(g, row, column, targetMarker, maxChain)
        horizontalChain ==
            countCurrentLeftChain(g, row, column, targetMarker, maxChain)
            + countCurrentRightChain(g, row, column, targetMarker, maxChain)
        diagonalLeftChain ==
            countTopLeftChain(g, row, column, targetMarker, maxChain)
            + countBottomRightChain(g, row, column, targetMarker, maxChain)
        diagonalRightChain ==
            countTopRightChain(g, row, column, targetMarker, maxChain)
            + countBottomLeftChain(g, row, column, targetMarker, maxChain)
    IN  [row |-> row,
         column |-> column,
         verticalChain |-> verticalChain,
         horizontalChain |-> horizontalChain,
         diagonalLeftChain |-> diagonalLeftChain,
         diagonalRightChain |-> diagonalRightChain,
         totalConnected |-> AxisTotal(verticalChain) + AxisTotal(horizontalChain)
                            + AxisTotal(diagonalLeftChain) + AxisTotal(diagonalRightChain)]

----------------------------------------------------------------------------
\* Board operations.

\* No call was made yet, or the last one returns void.
NoValue == <<>>

Returned(value) == <<value>>

\* A bool returned. It is told from an int returned by its length: TLC orders
\* the values a variable takes and cannot order a number and a boolean.
ReturnedBool(value) == <<value, "bool">>

\* A text written to std::cout with its newline.
Printed(text) == <<"std::cout", text, "\n">>

\* A slip in the test of Board::markCellByNumber: an occupied cell passes.
MarkRefusedOccupiedAllowed(cellNumber) ==
    LET x == columnByCellNumber(cellNumber)
        y == rowByCellNumber(cellNumber)
    IN  \/ x < 0
        \/ x >= gridSize
        \/ y < 0
        \/ y >= gridSize
        \/ playerTurn = 0

\* A test that refuses every cell.
MarkRefusedAlways(cellNumber) == TRUE

\* The test of Board::markCellByNumber that makes it return false.
MarkRefused(cellNumber) ==
    LET x == columnByCellNumber(cellNumber)
        y == rowByCellNumber(cellNumber)
    IN  \/ x < 0
        \/ x >= gridSize
        \/ y < 0
        \/ y >= gridSize
        \/ grid[y][x] # Empty
        \/ playerTurn = 0

\* A slip in Board::markCellByNumber: the turn holder is looked at only after
\* the cell was written.
markCellByNumberLateTurnCheck(cellNumber, marker) ==
    LET x == columnByCellNumber(cellNumber)
        y == rowByCellNumber(cellNumber)
    IN  /\ call' = "markCellByNumber"
        /\ IF x < 0 \/ x >= gridSize \/ y < 0 \/ y >= gridSize
           THEN ret' = ReturnedBool(FALSE) /\ UNCHANGED board
           ELSE IF grid[y][x] # Empty
           THEN ret' = ReturnedBool(FALSE) /\ UNCHANGED board
           ELSE IF playerTurn = 0
           THEN /\ grid' = [grid EXCEPT ![y][x] = marker]
                /\ ret' = ReturnedBool(FALSE)
                /\ UNCHANGED <<variant, gridSize, players, playerTurn>>
           ELSE /\ grid' = [grid EXCEPT ![y][x] = marker]
                /\ LET totalConnected == findConnectedCell(grid', y, x, marker, IntMax).totalConnected
                       score == players[playerTurn].score + totalConnected
                   IN  players' = [players EXCEPT ![playerTurn] = setScore(@, score)]
                /\ ret' = ReturnedBool(TRUE)
                /\ UNCHANGED <<variant, gridSize, playerTurn>>

\* A markCellByNumber that credits every player with the cells connected.
markCellByNumberCreditsAll(cellNumber, marker) ==
    LET x == columnByCellNumber(cellNumber)
        y == rowByCellNumber(cellNumber)
    IN  /\ call' = "markCellByNumber"
        /\ IF MarkRefused(cellNumber)
           THEN /\ ret' = ReturnedBool(FALSE)
                /\ UNCHANGED board
           ELSE /\ grid' = [grid EXCEPT ![y][x] = marker]
                /\ LET totalConnected == findConnectedCell(grid', y, x, marker, IntMax).totalConnected
                   IN  players' = [i \in PlayerNumbers |->
                                      setScore(players[i], players[i].score + totalConnected)]
                /\ ret' = ReturnedBool(TRUE)
                /\ UNCHANGED <<variant, gridSize, playerTurn>>

\* A markCellByNumber that also passes the turn to the next player.
markCellByNumberPassesTurn(cellNumber, marker) ==
    LET x == columnByCellNumber(cellNumber)
        y == rowByCellNumber(cellNumber)
    IN  /\ call' = "markCellByNumber"
        /\ IF MarkRefused(cellNumber)
           THEN /\ ret' = ReturnedBool(FALSE)
                /\ UNCHANGED board
           ELSE /\ grid' = [grid EXCEPT ![y][x] = marker]
                /\ LET totalConnected == findConnectedCell(grid', y, x, marker, IntMax).totalConnected
                       score == players[playerTurn].score + totalConnected
                   IN  players' = [players EXCEPT ![playerTurn] = setScore(@, score)]
                /\ playerTurn' = (playerTurn % totalPlayers) + 1
                /\ ret' = ReturnedBool(TRUE)
                /\ UNCHANGED <<variant, gridSize>>

\* Board::markCellByNumber.
markCellByNumber(cellNumber, marker) ==
    LET x == columnByCellNumber(cellNumber)
        y == rowByCellNumber(cellNumber)
    IN  /\ call' = "markCellByNumber"
        /\ IF MarkRefused(cellNumber)
           THEN /\ ret' = ReturnedBool(FALSE)
                /\ UNCHANGED board
           ELSE /\ grid' = [grid EXCEPT ![y][x] = marker]
                /\ LET totalConnected == findConnectedCell(grid', y, x, marker, IntMax).totalConnected
                       score == players[playerTurn].score + totalConnected
                   IN  players' = [players EXCEPT ![playerTurn] = setScore(@, score)]
                /\ ret' = ReturnedBool(TRUE)
                /\ UNCHANGED <<variant, gridSize, playerTurn>>

\* Board::reset.
reset ==
    /\ call' = "reset"
    /\ grid' = EmptyGrid(gridSize)
    /\ playerTurn' = 0
    /\ players' = [i \in PlayerNumbers |-> PlayerReset(players[i])]
    /\ ret' = NoValue
    /\ UNCHANGED <<variant, gridSize>>

\* A slip in Board::togglePlayerTurn: the random index is taken on every call.
togglePlayerTurnAlwaysRandom ==
    /\ call' = "togglePlayerTurn"
    /\ \E randomIndex \in 0..Max(0, totalPlayers - 1) :
            playerTurn' = players[randomIndex + 1].number
    /\ ret' = NoValue
    /\ UNCHANGED <<variant, gridSize, grid, players>>

\* A togglePlayerTurn that picks a first turn holder and then keeps it.
togglePlayerTurnKeepsHolder ==
    /\ call' = "togglePlayerTurn"
    /\ \E randomIndex \in 0..Max(0, totalPlayers - 1) :
            playerTurn' = IF playerTurn = 0 THEN players[randomIndex + 1].number
                          ELSE playerTurn
    /\ ret' = NoValue
    /\ UNCHANGED <<variant, gridSize, grid, players>>

\* Board::togglePlayerTurn: randomIndex(engine) is any index of the list.
togglePlayerTurn ==
    /\ call' = "togglePlayerTurn"
    /\ \E randomIndex \in 0..Max(0, totalPlayers - 1) :
            LET playerTurnIndex == IF playerTurn = 0 THEN -1 ELSE playerTurn - 1
                next == IF playerTurnIndex = -1 THEN randomIndex
                        ELSE IF playerTurnIndex + 1 >= totalPlayers THEN 0
                        ELSE playerTurnIndex + 1
            IN  playerTurn' = players[next + 1].number
    /\ ret' = NoValue
    /\ UNCHANGED <<variant, gridSize, grid, players>>

\* A slip in ClassicBoard::isCompleted: the scores are not looked at.
ClassicIsCompletedFullOnly == findAvailableCellNumbers = {}

\* ClassicBoard::isCompleted.
ClassicIsCompleted ==
    IF findAvailableCellNumbers = {} THEN TRUE
    ELSE IF \E i \in PlayerNumbers : players[i].score > 0 THEN TRUE
    ELSE FALSE

\* A slip in FrenzyBoard::isCompleted: a score ends the game as in Classic.
FrenzyIsCompletedOnScore ==
    \/ findAvailableCellNumbers = {}
    \/ \E i \in PlayerNumbers : players[i].score > 0

\* FrenzyBoard::isCompleted.
FrenzyIsCompleted == findAvailableCellNumbers = {}

\* Board::isCompleted, virtual.
isCompleted == IF variant = "Classic" THEN ClassicIsCompleted ELSE FrenzyIsCompleted

\* The loop of Board::resultText over the players from index i on: the top
\* player (0 is nullptr) once the loop is over.
RECURSIVE TopPlayerLoop(_, _, _)
TopPlayerLoop(i, topPlayer, topScore) ==
    IF i > totalPlayers THEN topPlayer
    ELSE IF players[i].score > topScore
    THEN TopPlayerLoop(i + 1, i, players[i].score)
    ELSE IF players[i].score = topScore
    THEN TopPlayerLoop(i + 1, 0, topScore)
    ELSE TopPlayerLoop(i + 1, topPlayer, topScore)

\* Player::name and Bot::name.
name(p) == IF p.bot THEN "Bot" ELSE "Player"

\* The texts Board::resultText builds, piece by piece.
drawText == <<"Game over! The game ends with draw.\n">>

winText(p) == <<"Game over! ", name(p), "-", p.number, " (", p.marker, ") has won!\n">>

\* A slip in the loop of Board::resultText: an equal score does not remove
\* the top player.
RECURSIVE TopPlayerLoopKeepsFirst(_, _, _)
TopPlayerLoopKeepsFirst(i, topPlayer, topScore) ==
    IF i > totalPlayers THEN topPlayer
    ELSE IF players[i].score > topScore
    THEN TopPlayerLoopKeepsFirst(i + 1, i, players[i].score)
    ELSE TopPlayerLoopKeepsFirst(i + 1, topPlayer, topScore)

resultTextKeepsFirstTop ==
    LET topPlayer == TopPlayerLoopKeepsFirst(1, 0, 0)
    IN  IF topPlayer = 0 THEN drawText ELSE winText(players[topPlayer])

\* Board::resultText.
resultText ==
    LET topPlayer == TopPlayerLoop(1, 0, 0)
    IN  IF topPlayer = 0 THEN drawText ELSE winText(players[topPlayer])

----------------------------------------------------------------------------
\* Bot.

\* std::unique_ptr<const ConnectedCell>: nullptr, or the cell it owns.
Nullptr == <<>>

MakeUnique(cell) == <<cell>>

\* rankedCells.at(0) of an empty vector throws: no value is returned, the
\* exception is.
Thrown(what) == <<"throw", what>>

\* The loop of Bot::_rankAvailableCells: findConnectedCell of each available
\* cell, from the given cell number on, pushed back in the order of the
\* std::set.
RECURSIVE PushBackLoop(_, _, _)
PushBackLoop(player, availableCellNumbers, cell) ==
    IF cell >= gridSize * gridSize
    THEN <<>>
    ELSE IF cell \in availableCellNumbers
    THEN <<findConnectedCell(grid, rowByCellNumber(cell), columnByCellNumber(cell),
                             player.marker, IntMax)>>
         \o PushBackLoop(player, availableCellNumbers, cell + 1)
    ELSE PushBackLoop(player, availableCellNumbers, cell + 1)

\* The vector cells of every player before it is sorted. The board does not
\* change during a call of requireCellSelection, so the call computes each
\* vector once.
findConnectedCells(availableCellNumbers) ==
    {[number |-> players[i].number,
      cells |-> PushBackLoop(players[i], availableCellNumbers, 0)] : i \in PlayerNumbers}

\* A comparator that counts the vertical chain alone.
ChainsVerticalOnly(a) == a.verticalChain

\* aChains and bChains of the comparator of Bot::_rankAvailableCells.
Chains(a) ==
    a.verticalChain + a.horizontalChain + a.diagonalLeftChain + a.diagonalRightChain

\* A comparator that ranks by the chains alone.
RankedBeforeByChains(a, b) == Chains(a) > Chains(b)

\* The comparator Bot::_rankAvailableCells gives to std::sort.
RankedBefore(a, b) ==
    \/ a.totalConnected > b.totalConnected
    \/ (a.totalConnected = b.totalConnected /\ Chains(a) > Chains(b))

\* std::sort leaves the order of two cells the comparator does not tell apart
\* unspecified. A tie order says which of them comes first: the cell met
\* first when counting the cell numbers up from the order's start, wrapping
\* around; the starts are the available cells (a start at a marked cell gives
\* the order of the next available one). requireCellSelection reads of a
\* ranking only its first cell, the first cell of a run of equal totals that
\* is also in a given set, and the last cell of such a run, and returns one
\* cell: each cell the comparator allows in such a place is put there by the
\* tie order that starts at it (first) or right after it (last).
TieOrders(availableCellNumbers) ==
    IF availableCellNumbers = {} THEN {0} ELSE availableCellNumbers

TiePosition(cell, tieOrder) ==
    (cellNumberByPosition(cell.row, cell.column) - tieOrder) % (gridSize * gridSize)

\* std::sort with the comparator, tied cells in the tie order.
Sort(cells, tieOrder) ==
    SortSeq(cells, LAMBDA a, b :
                       \/ RankedBefore(a, b)
                       \/ (~RankedBefore(b, a)
                           /\ TiePosition(a, tieOrder) < TiePosition(b, tieOrder)))

\* Bot::_rankAvailableCells.
rankAvailableCells(connected, player, tieOrder) ==
    Sort((CHOOSE c \in connected : c.number = player.number).cells, tieOrder)

\* A bot for which the later of two players always has the shorter turn
\* distance.
compareNextTurnSecond(number, player1, player2) == player2

\* A bot for which the player of the smaller number has the shorter turn
\* distance.
compareNextTurnSmallerNumber(number, player1, player2) ==
    IF player1.number < player2.number THEN player1 ELSE player2

\* A bot without the test of its own number against the second player's.
compareNextTurnNoOwnNumberTest(number, player1, player2) ==
    IF \/ (player1.number < player2.number /\ player2.number < number)
       \/ (player2.number < number /\ number < player1.number)
       \/ (number < player1.number /\ player1.number < player2.number)
    THEN player1
    ELSE player2

\* Bot::_compareNextTurn of the bot with the given number.
compareNextTurn(number, player1, player2) ==
    IF \/ (player1.number < player2.number /\ player2.number < number)
       \/ (player2.number < number /\ number < player1.number)
       \/ (number < player1.number /\ player1.number < player2.number)
       \/ number = player2.number
    THEN player1
    ELSE player2

\* The body of the loop of Bot::requireCellSelection that searches the
\* player to block, for one player and its ranked cells: playerToBlock is a
\* player number, 0 for nullptr.
PlayerToBlockStep(number, player, playerCells, playerToBlockCells, playerToBlock) ==
    LET playerShortestNextTurn ==
            IF playerToBlock = 0
            THEN player
            ELSE compareNextTurn(number, players[playerToBlock], player)
    IN  IF \/ playerToBlockCells = <<>>
           \/ playerCells[1].totalConnected > playerToBlockCells[1].totalConnected
           \/ (playerCells[1].totalConnected = playerToBlockCells[1].totalConnected
               /\ playerShortestNextTurn = player)
        THEN [playerToBlockCells |-> playerCells, playerToBlock |-> player.number]
        ELSE [playerToBlockCells |-> playerToBlockCells, playerToBlock |-> playerToBlock]

\* What the loop holds after the player at index i: the player to block and
\* its cells, and the indices the loop went through so far, in order.
Visited(toBlock, scanned, i) ==
    [playerToBlockCells |-> toBlock.playerToBlockCells,
     playerToBlock |-> toBlock.playerToBlock,
     scanned |-> Append(scanned, i)]

\* The loop itself, from n on.
RECURSIVE PlayerToBlockLoop(_, _, _, _, _)
PlayerToBlockLoop(connected, number, tieOrder, n, toBlock) ==
    LET i == n % totalPlayers
    IN  IF ~(n < totalPlayers + (number % totalPlayers) /\ i # number - 1)
        THEN toBlock
        ELSE PlayerToBlockLoop(connected, number, tieOrder, n + 1,
                 Visited(PlayerToBlockStep(number, players[i + 1],
                                           rankAvailableCells(connected, players[i + 1],
                                                              tieOrder),
                                           toBlock.playerToBlockCells,
                                           toBlock.playerToBlock),
                         toBlock.scanned, i))

\* The loop from its start: nobody to block yet, no index gone through.
searchPlayerToBlock(connected, number, tieOrder) ==
    PlayerToBlockLoop(connected, number, tieOrder, number % totalPlayers,
                      [playerToBlockCells |-> <<>>, playerToBlock |-> 0, scanned |-> <<>>])

\* A bot that blocks at once an equal total too.
ImmediateBlockOnEqual(playerCell, rankedCells) ==
    playerCell.totalConnected >= rankedCells[1].totalConnected

\* A bot that never blocks at once.
ImmediateBlockNever(playerCell, rankedCells) == FALSE

\* playerCell.totalConnected > rankedCells.at(0).totalConnected
ImmediateBlock(playerCell, rankedCells) ==
    playerCell.totalConnected > rankedCells[1].totalConnected

\* The inner loop over the bot's own ranked cells, from the k-th on.
RECURSIVE RankedCellLoop(_, _, _, _)
RankedCellLoop(playerCell, rankedCells, k, bestCell) ==
    IF k > Len(rankedCells)
    THEN [bestCell |-> bestCell, isBestCellFound |-> FALSE]
    ELSE LET rankedCell == rankedCells[k]
         IN  IF /\ playerCell.totalConnected = rankedCells[1].totalConnected
                /\ playerCell.totalConnected = rankedCell.totalConnected
             THEN IF playerCell.row = rankedCell.row /\ playerCell.column = rankedCell.column
                  THEN [bestCell |-> MakeUnique(playerCell), isBestCellFound |-> TRUE]
                  ELSE RankedCellLoop(playerCell, rankedCells, k + 1, MakeUnique(playerCell))
             ELSE [bestCell |-> bestCell, isBestCellFound |-> FALSE]

\* The loop over the cells of the player to block, from the j-th on.
RECURSIVE PlayerCellLoop(_, _, _, _)
PlayerCellLoop(playerToBlockCells, rankedCells, j, bestCell) ==
    IF j > Len(playerToBlockCells)
    THEN bestCell
    ELSE LET playerCell == playerToBlockCells[j]
         IN  IF playerCell.totalConnected = 0
             THEN bestCell
             ELSE IF ImmediateBlock(playerCell, rankedCells)
             THEN MakeUnique(playerCell)
             ELSE LET inner == RankedCellLoop(playerCell, rankedCells, 1, bestCell)
                  IN  IF inner.isBestCellFound
                      THEN inner.bestCell
                      ELSE PlayerCellLoop(playerToBlockCells, rankedCells, j + 1,
                                          inner.bestCell)

\* A slip: the index drawn is returned in place of the cell at the index.
availableCellsArrayIndex(availableCells, index) == index

\* availableCellsArray.at(index): the cells in the order of the std::set.
RECURSIVE availableCellsArray(_, _)
availableCellsArray(availableCells, index) ==
    LET least == CHOOSE c \in availableCells : \A d \in availableCells : c <= d
    IN  IF index = 0 THEN least ELSE availableCellsArray(availableCells \ {least}, index - 1)

\* Bot::requireCellSelection of the bot with the given number. The call
\* reads the board and changes nothing of it; what it returns depends on the
\* order std::sort leaves tied cells in and, when the bot finds nothing to
\* block or to chain, on the index the random engine draws. The vectors are
\* bound by \E over a one-element set, so that each is computed once.
requireCellSelection(number) ==
    LET availableCells == findAvailableCellNumbers
    IN  /\ call' = "requireCellSelection"
        /\ UNCHANGED board
        /\ \E connected \in {findConnectedCells(availableCells)},
              tieOrder \in TieOrders(availableCells) :
            \E rankedCells \in {rankAvailableCells(connected, players[number], tieOrder)},
               toBlock \in {searchPlayerToBlock(connected, number, tieOrder)} :
            LET playerToBlockCells == toBlock.playerToBlockCells
            IN  IF rankedCells = <<>>
                THEN ret' = Thrown("std::out_of_range")
                ELSE LET bestCell ==
                             PlayerCellLoop(playerToBlockCells, rankedCells, 1,
                                            IF rankedCells[1].totalConnected >= 3
                                            THEN MakeUnique(rankedCells[1])
                                            ELSE Nullptr)
                     IN  IF bestCell # Nullptr
                         THEN ret' = Returned(cellNumberByPosition(bestCell[1].row,
                                                                   bestCell[1].column))
                         ELSE IF \/ rankedCells[1].verticalChain >= 1
                                 \/ rankedCells[1].horizontalChain >= 1
                                 \/ rankedCells[1].diagonalLeftChain >= 1
                                 \/ rankedCells[1].diagonalRightChain >= 1
                         THEN ret' = Returned(cellNumberByPosition(rankedCells[1].row,
                                                                   rankedCells[1].column))
                         ELSE \E randomIndex \in 0..Max(0, Cardinality(availableCells) - 1) :
                                  ret' = Returned(availableCellsArray(availableCells,
                                                                      randomIndex))

----------------------------------------------------------------------------
\* The board as its callers may drive it: any call in any order.

CellInputs == (-InputPad)..(gridSize * gridSize - 1 + InputPad)

\* ClassicBoard::ClassicBoard sizes the grid players.size() + 1;
\* FrenzyBoard::FrenzyBoard takes the size Screen::requireGridSize read.
NewBoard(v, bots, size) ==
    /\ variant = v
    /\ players = requirePlayers(bots)
    /\ gridSize = IF v = "Classic" THEN Len(bots) + 1 ELSE size
    /\ grid = EmptyGrid(gridSize)
    /\ playerTurn = 0
    /\ call = ""
    /\ args = NoValue
    /\ ret = NoValue
    /\ turns = <<>>
    /\ pc = 0

Init == \E v \in {"Classic", "Frenzy"} : NewBoard(v, Humans(MinPlayers), MinGridSize)

\* main passes the marker of the player whose turn it is; with no turn holder
\* any marker may be tried.
MoverMarkers == IF playerTurn = 0 THEN Markers ELSE {players[playerTurn].marker}

Mark ==
    /\ \E cellNumber \in CellInputs, marker \in MoverMarkers :
            markCellByNumber(cellNumber, marker)
    /\ UNCHANGED <<args, turns, pc>>

Toggle == togglePlayerTurn /\ UNCHANGED <<args, turns, pc>>

Reset == reset /\ UNCHANGED <<args, turns, pc>>

Next ==
    \/ Mark
    \/ Toggle
    \/ Reset

Spec == Init /\ [][Next]_vars

----------------------------------------------------------------------------
\* The board with more players and any player's marker in any call, the
\* number of marked cells capped.

MarkedCells == {rc \in Rows \X Rows : grid[rc[1]][rc[2]] # Empty}

InitOpen == \E n \in MinPlayers..MaxPlayers : NewBoard("Frenzy", Humans(n), MinGridSize)

\* The last totalPlayers entries of the history with holder appended.
Logged(holder) ==
    LET all == Append(turns, holder)
    IN  IF Len(all) > totalPlayers THEN Tail(all) ELSE all

MarkOpen ==
    /\ Cardinality(MarkedCells) < MaxMarks
    /\ \E cellNumber \in CellInputs, marker \in Markers :
            markCellByNumber(cellNumber, marker)
    /\ UNCHANGED <<args, turns, pc>>

ToggleOpen == togglePlayerTurn /\ turns' = Logged(playerTurn') /\ UNCHANGED <<args, pc>>

ResetOpen == reset /\ turns' = <<>> /\ UNCHANGED <<args, pc>>

NextOpen ==
    \/ MarkOpen
    \/ ToggleOpen
    \/ ResetOpen

SpecOpen == InitOpen /\ [][NextOpen]_vars

----------------------------------------------------------------------------
\* The board with the arguments of every markCellByNumber call on record, any
\* player's marker in any call, the number of marked cells capped.

InitCalls == \E v \in {"Classic", "Frenzy"} : NewBoard(v, Humans(MinPlayers), MinGridSize)

MarkCalls ==
    /\ Cardinality(MarkedCells) < MaxCallMarks
    /\ \E cellNumber \in CellInputs, marker \in Markers :
            /\ markCellByNumber(cellNumber, marker)
            /\ args' = [cellNumber |-> cellNumber, marker |-> marker]
    /\ UNCHANGED <<turns, pc>>

ToggleCalls == togglePlayerTurn /\ args' = NoValue /\ UNCHANGED <<turns, pc>>

ResetCalls == reset /\ args' = NoValue /\ UNCHANGED <<turns, pc>>

NextCalls ==
    \/ MarkCalls
    \/ ToggleCalls
    \/ ResetCalls

SpecCalls == InitCalls /\ [][NextCalls]_vars

----------------------------------------------------------------------------
\* Board::resultText on every score vector up to MaxScore.

InitResult ==
    \E n \in MinPlayers..MaxPlayers :
        \E scores \in [1..n -> 0..MaxScore] :
            /\ variant = "Frenzy"
            /\ players = [i \in 1..n |-> [NewPlayer(i, FALSE) EXCEPT !.score = scores[i]]]
            /\ gridSize = MinGridSize
            /\ grid = EmptyGrid(gridSize)
            /\ playerTurn = 0
            /\ call = ""
            /\ args = NoValue
            /\ ret = NoValue
            /\ turns = <<>>
            /\ pc = 0

ResultText ==
    /\ call' = "resultText"
    /\ ret' = Returned(resultText)
    /\ UNCHANGED <<board, args, turns, pc>>

NextResult == ResultText

SpecResult == InitResult /\ [][NextResult]_vars

----------------------------------------------------------------------------
\* Board::findConnectedCell on every grid of up to MaxChainMarks marked cells.

\* The maxChain of the calls: the default.
MaxChains == {IntMax}

InitChain ==
    /\ variant = "Frenzy"
    /\ players = requirePlayers(Humans(MinPlayers))
    /\ gridSize = MinGridSize
    /\ grid \in [Rows -> [Rows -> Markers \cup {Empty}]]
    /\ Cardinality(MarkedCells) <= MaxChainMarks
    /\ playerTurn = 0
    /\ call = ""
    /\ args \in [row : Rows, column : Rows, targetMarker : Markers, maxChain : MaxChains]
    /\ ret = NoValue
    /\ turns = <<>>
    /\ pc = 0

FindConnectedCell ==
    /\ call' = "findConnectedCell"
    /\ ret' = Returned(findConnectedCell(grid, args.row, args.column,
                                         args.targetMarker, args.maxChain))
    /\ UNCHANGED <<board, args, turns, pc>>

NextChain == FindConnectedCell

SpecChain == InitChain /\ [][NextChain]_vars

----------------------------------------------------------------------------
\* Bot::requireCellSelection on every grid of up to MaxBotMarks marked cells,
\* for every seat of the bot among MinPlayers up to MaxPlayers players.

\* Screen::requirePlayers with the player of the given number a bot.
OneBot(n, number) == [i \in 1..n |-> i = number]

\* The marked cells of the boards of n players: at most MaxBotMarks for
\* MinPlayers players, two less for each player more.
BotMarks(n) == Max(0, MaxBotMarks - 2 * (n - MinPlayers))

\* The grid with the given marker at each of the given cells.
MarkedGrid(marks) ==
    [row \in Rows |-> [column \in Rows |->
        IF cellNumberByPosition(row, column) \in DOMAIN marks
        THEN marks[cellNumberByPosition(row, column)]
        ELSE Empty]]

InitBot ==
    \E n \in MinPlayers..MaxPlayers, number \in 1..MaxPlayers :
        /\ number <= n
        /\ variant = "Frenzy"
        /\ players = requirePlayers(OneBot(n, number))
        /\ gridSize = MinGridSize
        /\ \E cells \in SUBSET CellNumbers :
              /\ Cardinality(cells) <= BotMarks(n)
              /\ \E marks \in [cells -> Markers] : grid = MarkedGrid(marks)
        /\ playerTurn = 0
        /\ call = ""
        /\ args = [number |-> number]
        /\ ret = NoValue
        /\ turns = <<>>
        /\ pc = 0

\* One call on each board.
RequireCellSelection ==
    /\ call = ""
    /\ requireCellSelection(args.number)
    /\ UNCHANGED <<args, turns, pc>>

NextBot == RequireCellSelection

SpecBot == InitBot /\ [][NextBot]_vars

----------------------------------------------------------------------------
\* The search of the player to block, the first loop of
\* Bot::requireCellSelection, on the boards of SpecBot: ret holds the locals
\* of the call when the loop ends.

SearchPlayerToBlock ==
    /\ call = ""
    /\ call' = "searchPlayerToBlock"
    /\ \E connected \in {findConnectedCells(findAvailableCellNumbers)},
          tieOrder \in TieOrders(findAvailableCellNumbers) :
           \E toBlock \in {searchPlayerToBlock(connected, args.number, tieOrder)} :
               ret' = Returned([playerToBlock |-> toBlock.playerToBlock,
                                scanned |-> toBlock.scanned])
    /\ UNCHANGED <<board, args, turns, pc>>

NextScan == SearchPlayerToBlock

SpecScan == InitBot /\ [][NextScan]_vars

----------------------------------------------------------------------------
\* The three conversions between cell numbers and positions, on the boards
\* of every grid size up to MaxGridSize, for every cell number and position.

InitCell ==
    /\ variant = "Frenzy"
    /\ players = requirePlayers(Humans(MinPlayers))
    /\ gridSize \in MinGridSize..MaxGridSize
    /\ grid = EmptyGrid(gridSize)
    /\ playerTurn = 0
    /\ call = ""
    /\ args \in [cellNumber : CellNumbers, row : Rows, column : Rows]
    /\ ret = NoValue
    /\ turns = <<>>
    /\ pc = 0

ColumnByCellNumber ==
    /\ call' = "columnByCellNumber"
    /\ ret' = Returned(columnByCellNumber(args.cellNumber))
    /\ UNCHANGED <<board, args, turns, pc>>

RowByCellNumber ==
    /\ call' = "rowByCellNumber"
    /\ ret' = Returned(rowByCellNumber(args.cellNumber))
    /\ UNCHANGED <<board, args, turns, pc>>

CellNumberByPosition ==
    /\ call' = "cellNumberByPosition"
    /\ ret' = Returned(cellNumberByPosition(args.row, args.column))
    /\ UNCHANGED <<board, args, turns, pc>>

NextCell ==
    \/ ColumnByCellNumber
    \/ RowByCellNumber
    \/ CellNumberByPosition

SpecCell == InitCell /\ [][NextCell]_vars

----------------------------------------------------------------------------
\* Board::_countChainByDirection on every grid of up to MaxCountMarks marked
\* cells, from every cell, in the eight directions of its callers.

Directions == {d \in {-1, 0, 1} \X {-1, 0, 1} : d # <<0, 0>>}

InitCount ==
    /\ variant = "Frenzy"
    /\ players = requirePlayers(Humans(MinPlayers))
    /\ gridSize = MinGridSize
    /\ \E cells \in SUBSET CellNumbers :
          /\ Cardinality(cells) <= MaxCountMarks
          /\ \E marks \in [cells -> Markers] : grid = MarkedGrid(marks)
    /\ playerTurn = 0
    /\ call = ""
    /\ \E d \in Directions :
          args \in [row : Rows, column : Rows, deltaRow : {d[1]}, deltaColumn : {d[2]},
                    targetMarker : Markers, maxChain : (0..MaxMaxChain) \cup {IntMax}]
    /\ ret = NoValue
    /\ turns = <<>>
    /\ pc = 0

CountChainByDirection ==
    /\ call' = "countChainByDirection"
    /\ ret' = Returned(countChainByDirection(grid, args.row, args.column, args.deltaRow,
                                             args.deltaColumn, args.targetMarker,
                                             args.maxChain))
    /\ UNCHANGED <<board, args, turns, pc>>

NextCount == CountChainByDirection

SpecCount == InitCount /\ [][NextCount]_vars

----------------------------------------------------------------------------
\* The test of Board::gridLayoutText that colours a marked cell, on the grids
\* of size MinGridSize up to MaxCapGridSize with up to MaxCapMarks cells of
\* one marker. findConnectedCell compares a cell with the target marker only,
\* so a cell of another marker counts as an empty one does.

MaxCapGridSize == 5

MaxCapMarks == 5

\* The sets of at most size cells.
RECURSIVE CellSets(_, _)
CellSets(cells, size) ==
    IF size = 0 THEN {{}}
    ELSE LET smaller == CellSets(cells, size - 1)
         IN  smaller \cup {s \cup {c} : s \in smaller, c \in cells}

InitCap ==
    /\ variant = "Frenzy"
    /\ players = requirePlayers(Humans(MinPlayers))
    /\ gridSize \in MinGridSize..MaxCapGridSize
    /\ \E cells \in CellSets(CellNumbers, MaxCapMarks) :
          /\ grid = MarkedGrid([c \in cells |-> MarkerOf[1]])
          /\ \E c \in cells :
                args = [y |-> rowByCellNumber(c), x |-> columnByCellNumber(c)]
    /\ playerTurn = 0
    /\ call = ""
    /\ ret = NoValue
    /\ turns = <<>>
    /\ pc = 0

\* A test with a maxChain of 1.
isChainedCapOne(y, x) ==
    LET currentMarker == grid[y][x]
    IN  /\ currentMarker # Empty
        /\ findConnectedCell(grid, y, x, currentMarker, 1).totalConnected >= 3

\* !currentMarker.empty() && findConnectedCell(y, x, currentMarker, 3).totalConnected >= 3
isChained(y, x) ==
    LET currentMarker == grid[y][x]
    IN  /\ currentMarker # Empty
        /\ findConnectedCell(grid, y, x, currentMarker, 3).totalConnected >= 3

\* One pass of the inner loop of Board::gridLayoutText, for the cell of args:
\* whether the cell is coloured.
GridLayoutText ==
    /\ call = ""
    /\ call' = "gridLayoutText"
    /\ ret' = ReturnedBool(isChained(args.y, args.x))
    /\ UNCHANGED <<board, args, turns, pc>>

NextCap == GridLayoutText

SpecCap == InitCap /\ [][NextCap]_vars

----------------------------------------------------------------------------
\* main: the game loop, on the boards of MinPlayers players, each a bot or
\* not, and of grid size MinGridSize. pc is the line of main to run next;
\* turns logs the player of each move since the board was new or reset.

\* Screen::requireGameMode: a new board, of either game mode, and a first
\* togglePlayerTurn on it, which picks any player.
NewGame(v, bots, holder) ==
    /\ variant = v
    /\ players = requirePlayers(bots)
    /\ gridSize = IF v = "Classic" THEN Len(bots) + 1 ELSE MinGridSize
    /\ grid = EmptyGrid(gridSize)
    /\ playerTurn = holder
    /\ call = "requireGameMode"
    /\ args = [currentPlayerTurn |-> 0]
    /\ ret = NoValue
    /\ turns = <<>>
    /\ pc = 1025

InitMain ==
    \E v \in {"Classic", "Frenzy"}, bots \in [1..MinPlayers -> BOOLEAN],
       holder \in 1..MinPlayers :
        NewGame(v, bots, holder)

\* A test that takes any cell number of the grid.
GridSelectionAcceptedInRange(selectedCell) ==
    selectedCell >= 0 /\ selectedCell <= Max(0, gridSize * gridSize - 1)

\* The test of Board::requireGridSelection on the number the user typed.
GridSelectionAccepted(selectedCell) ==
    LET maxCell == Max(0, gridSize * gridSize - 1)
        maxRowOrColumn == Max(0, gridSize - 1)
        x == columnByCellNumber(selectedCell)
        y == rowByCellNumber(selectedCell)
    IN  /\ selectedCell >= 0
        /\ selectedCell <= maxCell
        /\ x >= 0
        /\ x <= maxRowOrColumn
        /\ y >= 0
        /\ y <= maxRowOrColumn
        /\ grid[y][x] = Empty

\* Board::requireGridSelection: asks again until the number typed passes the
\* test, and returns that number.
requireGridSelection ==
    /\ call' = "requireCellSelection"
    /\ \E selectedCell \in CellInputs :
          /\ GridSelectionAccepted(selectedCell)
          /\ ret' = Returned(selectedCell)
    /\ UNCHANGED board

\* Lines 1026: the board is completed, its result is printed.
MainResultText ==
    /\ pc = 1025
    /\ isCompleted
    /\ call' = "resultText"
    /\ ret' = Printed(resultText)
    /\ pc' = 1028
    /\ UNCHANGED <<board, args, turns>>

\* Line 1028.
MainReset ==
    /\ pc = 1028
    /\ reset
    /\ pc' = 1029
    /\ turns' = <<>>
    /\ UNCHANGED args

\* Line 1029.
MainToggleAfterReset ==
    /\ pc = 1029
    /\ togglePlayerTurn
    /\ pc' = 1033
    /\ UNCHANGED <<args, turns>>

\* Line 1033: Board::requireRematch, the answer the user types.
MainRequireRematch ==
    /\ pc = 1033
    /\ \E answer \in BOOLEAN :
          /\ call' = "requireRematch"
          /\ ret' = ReturnedBool(answer)
          /\ pc' = IF answer THEN 1025 ELSE 1035
    /\ UNCHANGED <<board, args, turns>>

\* Line 1035: no rematch, a new board.
MainRequireGameMode ==
    /\ pc = 1035
    /\ \E v \in {"Classic", "Frenzy"}, bots \in [1..MinPlayers -> BOOLEAN],
          holder \in 1..MinPlayers :
           /\ variant' = v
           /\ players' = requirePlayers(bots)
           /\ gridSize' = IF v = "Classic" THEN Len(bots) + 1 ELSE MinGridSize
           /\ grid' = EmptyGrid(gridSize')
           /\ playerTurn' = holder
    /\ call' = "requireGameMode"
    /\ args' = [currentPlayerTurn |-> 0]
    /\ ret' = NoValue
    /\ pc' = 1025
    /\ turns' = <<>>

\* Lines 1041-1042: the board is not completed; the turn holder, a bot or
\* not, selects a cell. args holds main's currentPlayerTurn, 0 before the
\* first turn on a board. Without a turn
\* holder the call is made through a null pointer, and an exception of the
\* bot leaves main: the program ends, pc is 0.
MainRequireCellSelection ==
    /\ pc = 1025
    /\ ~isCompleted
    /\ IF playerTurn = 0
       THEN /\ call' = "requireCellSelection"
            /\ ret' = Thrown("null pointer")
            /\ pc' = 0
            /\ UNCHANGED <<board, args>>
       ELSE /\ args' = [currentPlayerTurn |-> playerTurn]
            /\ IF players[playerTurn].bot
               THEN requireCellSelection(playerTurn)
               ELSE requireGridSelection
            /\ pc' = IF Len(ret') = 1 THEN 1044 ELSE 0
    /\ UNCHANGED turns

\* Line 1044: the selected cell is marked with the marker of currentPlayerTurn.
MainMarkCellByNumber ==
    /\ pc = 1044
    /\ markCellByNumber(ret[1], players[args.currentPlayerTurn].marker)
    /\ pc' = 1045
    /\ turns' = Append(turns, args.currentPlayerTurn)
    /\ UNCHANGED args

\* Line 1045.
MainToggleAfterMark ==
    /\ pc = 1045
    /\ togglePlayerTurn
    /\ pc' = 1025
    /\ UNCHANGED <<args, turns>>

NextMain ==
    \/ MainResultText
    \/ MainReset
    \/ MainToggleAfterReset
    \/ MainRequireRematch
    \/ MainRequireGameMode
    \/ MainRequireCellSelection
    \/ MainMarkCellByNumber
    \/ MainToggleAfterMark

SpecMain == InitMain /\ [][NextMain]_vars

\* Every call main makes returns, the selection of a cell included: main
\* always goes on to its next line.
SpecMainFair == SpecMain /\ WF_pc(NextMain)

----------------------------------------------------------------------------
\* Bot::_compareNextTurn of every bot among up to MaxComparePlayers players,
\* on every two players of the board, the bot itself and twice the same
\* player included.

MaxComparePlayers == 5

InitCompare ==
    \E n \in MinPlayers..MaxComparePlayers, number \in 1..MaxComparePlayers :
        /\ number <= n
        /\ variant = "Frenzy"
        /\ players = requirePlayers(OneBot(n, number))
        /\ gridSize = MinGridSize
        /\ grid = EmptyGrid(gridSize)
        /\ playerTurn = 0
        /\ call = ""
        /\ args \in [number : {number}, player1 : 1..n, player2 : 1..n]
        /\ ret = NoValue
        /\ turns = <<>>
        /\ pc = 0

CompareNextTurn ==
    /\ call = ""
    /\ call' = "compareNextTurn"
    /\ ret' = Returned(compareNextTurn(args.number, players[args.player1],
                                       players[args.player2]))
    /\ UNCHANGED <<board, args, turns, pc>>

NextCompare == CompareNextTurn

SpecCompare == InitCompare /\ [][NextCompare]_vars

----------------------------------------------------------------------------
\* Properties of the board.

ValidCell(cellNumber) == cellNumber >= 0 /\ cellNumber < gridSize * gridSize

RowOf(cellNumber) == cellNumber \div gridSize

ColumnOf(cellNumber) == cellNumber % gridSize

NoEmptyCell == \A row \in Rows, column \in Rows : grid[row][column] # Empty

SomeScored == \E i \in PlayerNumbers : players[i].score > 0

C2_RefusedMarkChangesNothing ==
    [][call' = "markCellByNumber" =>
        LET cellNumber == args'.cellNumber
        IN  (\/ cellNumber < 0
             \/ cellNumber >= gridSize * gridSize
             \/ grid[RowOf(cellNumber)][ColumnOf(cellNumber)] # Empty
             \/ playerTurn = 0)
            => (ret' = ReturnedBool(FALSE) /\ UNCHANGED <<grid, players, playerTurn>>)
    ]_vars

\* C2 witness: a call on an occupied cell was refused although a turn holder
\* is set.
C2_Witness ==
    /\ call = "markCellByNumber"
    /\ ret = ReturnedBool(FALSE)
    /\ playerTurn # 0
    /\ ValidCell(args.cellNumber)
    /\ grid[RowOf(args.cellNumber)][ColumnOf(args.cellNumber)] # Empty

\* C3: a cell that holds a marker keeps exactly that marker over every call
\* but reset.
C3_MarkedCellKeepsMarker ==
    [][call' # "reset" =>
        \A row \in Rows, column \in Rows :
            grid[row][column] # Empty => grid'[row][column] = grid[row][column]
    ]_vars

\* C3 witness: cells of both markers are on the grid and a later call on the
\* board was refused.
C3_Witness ==
    /\ call = "markCellByNumber"
    /\ ret = ReturnedBool(FALSE)
    /\ \E row \in Rows, column \in Rows : grid[row][column] = "X"
    /\ \E row \in Rows, column \in Rows : grid[row][column] = "O"

\* C4: in Classic, isCompleted() is true exactly when no cell is available or
\* some player's score is > 0; it is true right after a successful mark that
\* completes a line of three or more (totalConnected >= 3), empty cells or not.
C4_ClassicCompleted ==
    /\ [](variant = "Classic" => (isCompleted <=> (NoEmptyCell \/ SomeScored)))
    /\ [][(/\ variant = "Classic"
           /\ call' = "markCellByNumber"
           /\ ret' = ReturnedBool(TRUE)
           /\ \E row \in Rows, column \in Rows :
                /\ grid[row][column] = Empty
                /\ grid'[row][column] # Empty
                /\ findConnectedCell(grid', row, column, grid'[row][column], IntMax)
                       .totalConnected >= 3)
          => isCompleted'
       ]_vars

\* C4 witness: a Classic board completed by a scoring mark while cells are
\* still empty.
C4_Witness ==
    /\ variant = "Classic"
    /\ call = "markCellByNumber"
    /\ ret = ReturnedBool(TRUE)
    /\ isCompleted
    /\ ~NoEmptyCell
    /\ players[playerTurn].score >= 3
    /\ players[playerTurn].lastScore = 0

\* C5: in Frenzy, isCompleted() is true if and only if
\* findAvailableCellNumbers() is empty, whatever the scores.
C5_FrenzyCompleted ==
    variant = "Frenzy" =>
        /\ isCompleted <=> findAvailableCellNumbers = {}
        /\ findAvailableCellNumbers = {} <=> NoEmptyCell

\* C5 witness: a Frenzy board where a player has scored, cells are available
\* and the board is not completed.
C5_Witness ==
    /\ variant = "Frenzy"
    /\ SomeScored
    /\ findAvailableCellNumbers # {}
    /\ ~isCompleted

\* C7: the first togglePlayerTurn after construction or reset sets the turn
\* holder to a player of the list, and any of them may be picked; every
\* later call sets it to the player at index (current index + 1) mod
\* playerCount, so playerCount calls in a row make every player the turn
\* holder exactly once.
C7_TurnRotation ==
    /\ \A k \in 1..Len(turns) : turns[k] \in PlayerNumbers
    /\ turns # <<>> => playerTurn = turns[Len(turns)]
    /\ \A k \in 1..(Len(turns) - 1) :
            turns[k + 1] = players[((turns[k] - 1 + 1) % totalPlayers) + 1].number
    /\ \A j, k \in 1..Len(turns) : j # k => turns[j] # turns[k]
    /\ Len(turns) = totalPlayers => {turns[k] : k \in 1..Len(turns)} = PlayerNumbers
    /\ playerTurn = 0 =>
            \A p \in PlayerNumbers : ENABLED (ToggleOpen /\ playerTurn' = p)

\* C7 witness: three players, the first pick was the second player, and three
\* calls in a row went on to the third and wrapped around to the first.
C7_Witness ==
    /\ totalPlayers = 3
    /\ turns = <<2, 3, 1>>

\* C8: reset() leaves every cell empty, no turn holder and every score and
\* lastScore 0, the grid size and the player list (numbers, markers, order)
\* as they were; the next togglePlayerTurn picks any player.
C8_ResetClearsBoard ==
    /\ [][call' = "reset" =>
            /\ \A row \in Rows, column \in Rows : grid'[row][column] = Empty
            /\ DOMAIN grid' = Rows /\ \A row \in Rows : DOMAIN grid'[row] = Rows
            /\ playerTurn' = 0
            /\ gridSize' = gridSize
            /\ Len(players') = Len(players)
            /\ \A i \in PlayerNumbers :
                /\ players'[i].score = 0
                /\ players'[i].lastScore = 0
                /\ players'[i].number = players[i].number
                /\ players'[i].marker = players[i].marker
       ]_vars
    /\ [](call = "reset" =>
            \A p \in PlayerNumbers : ENABLED (Toggle /\ playerTurn' = p))
    /\ [][(call = "reset" /\ call' = "togglePlayerTurn") => playerTurn' \in PlayerNumbers]_vars

\* C8 witness: the board right after a reset.
C8_Witness ==
    /\ call = "reset"
    /\ playerTurn = 0
    /\ grid = EmptyGrid(gridSize)

\* C6: resultText reports a win for player p if and only if p's score is
\* strictly greater than every other player's score; it reports a draw
\* whenever two or more players share the maximum score, all scores 0
\* included.
Reports(text, p) ==
    /\ Len(text) = 7
    /\ text[4] = players[p].number
    /\ text[6] = players[p].marker

StrictlyTop(p) == \A q \in PlayerNumbers \ {p} : players[p].score > players[q].score

TopShared ==
    \E p, q \in PlayerNumbers :
        /\ p # q
        /\ players[p].score = players[q].score
        /\ \A o \in PlayerNumbers : players[o].score <= players[p].score

C6_ResultText ==
    call = "resultText" =>
        /\ \A p \in PlayerNumbers : Reports(ret[1], p) <=> StrictlyTop(p)
        /\ TopShared => ret[1] = <<"Game over! The game ends with draw.\n">>
        /\ ret[1] = <<"Game over! The game ends with draw.\n">> => TopShared

\* C6 witness: the scores 5, 5, 3 were reported as a draw.
C6_Witness ==
    /\ call = "resultText"
    /\ totalPlayers = 3
    /\ players[1].score = 5 /\ players[2].score = 5 /\ players[3].score = 3
    /\ ret[1] = <<"Game over! The game ends with draw.\n">>

----------------------------------------------------------------------------
\* Properties of the chains.

InGrid(row, column) == row \in Rows /\ column \in Rows

\* The number of cells equal to marker met from one step after (row, column)
\* in direction (deltaRow, deltaColumn) before the grid ends or a cell differs.
RunLength(row, column, deltaRow, deltaColumn, marker) ==
    LET Matching(k) ==
            /\ InGrid(row + k * deltaRow, column + k * deltaColumn)
            /\ grid[row + k * deltaRow][column + k * deltaColumn] = marker
    IN  CHOOSE n \in 0..gridSize : (\A k \in 1..n : Matching(k)) /\ ~Matching(n + 1)

AxisRun(row, column, deltaRow, deltaColumn, marker) ==
    RunLength(row, column, deltaRow, deltaColumn, marker)
    + RunLength(row, column, -deltaRow, -deltaColumn, marker)

Counted(chain) == IF chain >= 2 THEN chain + 1 ELSE 0

\* C9: findConnectedCell returns for each of the four axes the sum of the two
\* opposite run lengths of the marker next to the cell, and totalConnected is
\* the sum over the axes of chain + 1 where chain >= 2; so it is 0 for a
\* cell with fewer than two matching cells in line on every axis and 3 for
\* the cell that completes exactly one line of three.
C9_FindConnectedCell ==
    (call = "findConnectedCell" /\ args.maxChain = IntMax) =>
        LET cell == ret[1]
            row == args.row
            column == args.column
            marker == args.targetMarker
            chains == <<cell.verticalChain, cell.horizontalChain,
                        cell.diagonalLeftChain, cell.diagonalRightChain>>
        IN  /\ cell.row = row /\ cell.column = column
            /\ cell.verticalChain = AxisRun(row, column, -1, 0, marker)
            /\ cell.horizontalChain = AxisRun(row, column, 0, -1, marker)
            /\ cell.diagonalLeftChain = AxisRun(row, column, -1, -1, marker)
            /\ cell.diagonalRightChain = AxisRun(row, column, -1, 1, marker)
            /\ cell.totalConnected =
                    Counted(chains[1]) + Counted(chains[2])
                    + Counted(chains[3]) + Counted(chains[4])
            /\ (\A a \in 1..4 : chains[a] < 2) => cell.totalConnected = 0
            /\ (\E a \in 1..4 : chains[a] = 2 /\ \A b \in (1..4) \ {a} : chains[b] < 2)
                    => cell.totalConnected = 3

\* C9 witness: the cell between two cells of the marker on a diagonal, with a
\* single neighbour on the other axes, completes one line of three.
C9_Witness ==
    /\ call = "findConnectedCell"
    /\ args.maxChain = IntMax
    /\ ret[1].diagonalRightChain = 2
    /\ ret[1].verticalChain = 1
    /\ ret[1].horizontalChain = 1
    /\ ret[1].totalConnected = 3

----------------------------------------------------------------------------
\* The bot's choice, stated on the grid alone.

\* The totalConnected a mark of the marker at the cell would give.
TotalAt(cellNumber, marker) ==
    LET row == RowOf(cellNumber)
        column == ColumnOf(cellNumber)
    IN  Counted(AxisRun(row, column, -1, 0, marker))
        + Counted(AxisRun(row, column, 0, -1, marker))
        + Counted(AxisRun(row, column, -1, -1, marker))
        + Counted(AxisRun(row, column, -1, 1, marker))

\* The best totalConnected player p reaches at an available cell.
Greatest(totals) == CHOOSE t \in totals : \A u \in totals : t >= u

BestTotal(p) ==
    Greatest({TotalAt(c, players[p].marker) : c \in findAvailableCellNumbers})

\* Every player with its best total.
BestTotals == {[player |-> p, total |-> BestTotal(p)] : p \in PlayerNumbers}

\* How many turns after the bot's the turn of player p comes.
TurnsAfter(number, p) == (p - number) % totalPlayers

\* Of the players and best totals in best, o is the one to block for the bot
\* of the given number: the opponent of the greatest best total, the soonest
\* to move of those.
IsToBlock(best, number, o) ==
    /\ o.player # number
    /\ \A q \in best :
          \/ q.player = number
          \/ o.total > q.total
          \/ (o.total = q.total
              /\ TurnsAfter(number, o.player) <= TurnsAfter(number, q.player))

\* The 3x3 board of two players with X at cells 0 and 1 and nothing else.
TwoInARow ==
    /\ totalPlayers = 2
    /\ gridSize = 3
    /\ \A c \in CellNumbers :
          grid[RowOf(c)][ColumnOf(c)] = (IF c \in {0, 1} THEN "X" ELSE Empty)

\* C10: when a cell is available and the player to block reaches at its best
\* available cell a totalConnected strictly greater than the bot reaches at
\* any, requireCellSelection returns an available cell where the player to
\* block reaches that total; with X at cells 0 and 1 of the 3x3 grid and no
\* other mark, the bot O returns cell 2.
C10_BotUrgentBlock ==
    (call = "requireCellSelection" /\ findAvailableCellNumbers # {}) =>
        /\ \A best \in {BestTotals} : \A own \in best, o \in best :
              (/\ own.player = args.number
               /\ IsToBlock(best, args.number, o)
               /\ o.total > own.total) =>
                    /\ Len(ret) = 1
                    /\ ret[1] \in findAvailableCellNumbers
                    /\ TotalAt(ret[1], players[o.player].marker) = o.total
        /\ (TwoInARow /\ args.number = 2) => ret = Returned(2)

\* C10 witness: the bot O has returned cell 2 on the board with X at 0 and 1.
C10_Witness ==
    /\ call = "requireCellSelection"
    /\ TwoInARow
    /\ args.number = 2
    /\ players[2].marker = "O"
    /\ ret = Returned(2)

----------------------------------------------------------------------------
\* The player number at index i of the player list.
NumberAt(i) == i + 1

\* C11: the search goes through every opponent once, from the player right
\* after the bot in turn order, wrapping around, to the player right before
\* it, and never through the bot; when a cell is available the player to
\* block is the opponent of the greatest best totalConnected and, of the
\* opponents of that best total, the one that moves soonest after the bot.
C11_ThreatIdentification ==
    call = "searchPlayerToBlock" =>
        LET number == args.number
            scanned == ret[1].scanned
        IN  /\ Len(scanned) = totalPlayers - 1
            /\ \A k \in 1..Len(scanned) :
                  /\ NumberAt(scanned[k]) \in PlayerNumbers \ {number}
                  /\ TurnsAfter(number, NumberAt(scanned[k])) = k
            /\ findAvailableCellNumbers # {} =>
                  \A best \in {BestTotals} : \A o \in best :
                      IsToBlock(best, number, o) => ret[1].playerToBlock = o.player

\* C11 witness: of three players the bot is the second, the first and the
\* third reach 3 at their best cells, and the third, next to move, is the one
\* to block.
C11_Witness ==
    /\ call = "searchPlayerToBlock"
    /\ totalPlayers = 3
    /\ args.number = 2
    /\ BestTotal(1) = 3
    /\ BestTotal(3) = 3
    /\ ret[1].scanned = <<2, 0>>
    /\ ret[1].playerToBlock = 3

----------------------------------------------------------------------------
\* The available cells that give the total to both markers.
DualCells(total, marker1, marker2) ==
    {c \in findAvailableCellNumbers :
        TotalAt(c, marker1) = total /\ TotalAt(c, marker2) = total}

\* What C12 asks of the returned cell, for the bot's marker, the marker of the
\* player to block and their common best total.
EqualThreatChoice(cell, total, own, other, duals) ==
    IF duals # {}
    THEN cell \in duals
    ELSE /\ cell \in findAvailableCellNumbers
         /\ TotalAt(cell, other) = total
         /\ TotalAt(cell, own) < total

\* C12: when the best total T of the player to block is above 0 and equal to
\* the bot's own best total, the bot returns an available cell that gives T
\* to both markers if there is one, and otherwise a cell that gives T to the
\* player to block, which is then not a best cell of the bot.
C12_EqualThreat ==
    (call = "requireCellSelection" /\ findAvailableCellNumbers # {}) =>
        \A best \in {BestTotals} : \A own \in best, o \in best :
            (/\ own.player = args.number
             /\ IsToBlock(best, args.number, o)
             /\ o.total > 0
             /\ o.total = own.total) =>
                /\ Len(ret) = 1
                /\ EqualThreatChoice(ret[1], o.total, players[own.player].marker,
                                     players[o.player].marker,
                                     DualCells(o.total, players[own.player].marker,
                                               players[o.player].marker))

\* C12 witness: X at 0 and 1, O at 5 and 8; cell 2, and no other, completes a
\* line of three for both; the bot O returns 2.
C12_Witness ==
    /\ call = "requireCellSelection"
    /\ totalPlayers = 2
    /\ args.number = 2
    /\ \A c \in CellNumbers :
          grid[RowOf(c)][ColumnOf(c)] =
              (IF c \in {0, 1} THEN "X" ELSE IF c \in {5, 8} THEN "O" ELSE Empty)
    /\ DualCells(3, "O", "X") = {2}
    /\ ret = Returned(2)

----------------------------------------------------------------------------
\* The sum of the four chains of the marker around the cell.
ChainSumAt(cellNumber, marker) ==
    LET row == RowOf(cellNumber)
        column == ColumnOf(cellNumber)
    IN  AxisRun(row, column, -1, 0, marker) + AxisRun(row, column, 0, -1, marker)
        + AxisRun(row, column, -1, -1, marker) + AxisRun(row, column, -1, 1, marker)

\* Every available cell with the chain sum of the marker around it.
ChainSums(marker) ==
    {[cell |-> c, chains |-> ChainSumAt(c, marker)] : c \in findAvailableCellNumbers}

\* No available cell gives a totalConnected above 0 to any player.
NothingToConnect == \A best \in BestTotals : best.total = 0

\* C13: when a cell is available and no available cell gives a totalConnected
\* above 0 to the bot or to an opponent, the bot returns an available cell; if
\* some available cell has a chain of the bot's marker next to it, the
\* returned cell has the greatest sum of the four chains; if none has, every
\* available cell is a possible result of the call.
C13_Fallback ==
    /\ (call = "requireCellSelection" /\ findAvailableCellNumbers # {}
        /\ NothingToConnect) =>
            /\ Len(ret) = 1
            /\ \A sums \in {ChainSums(players[args.number].marker)} :
                  \E chosen \in sums :
                      /\ chosen.cell = ret[1]
                      /\ \A other \in sums : chosen.chains >= other.chains
    /\ (call = "" /\ findAvailableCellNumbers # {}
        /\ (\A sum \in ChainSums(players[args.number].marker) : sum.chains = 0)
        /\ NothingToConnect) =>
            \A c \in findAvailableCellNumbers :
                ENABLED (RequireCellSelection /\ ret' = Returned(c))

\* C13 witness: X at cell 0 and no mark of the bot O, which has returned the
\* opposite corner.
C13_Witness ==
    /\ call = "requireCellSelection"
    /\ totalPlayers = 2
    /\ args.number = 2
    /\ \A c \in CellNumbers :
          grid[RowOf(c)][ColumnOf(c)] = (IF c = 0 THEN "X" ELSE Empty)
    /\ NothingToConnect
    /\ ret = Returned(8)

----------------------------------------------------------------------------
\* C14: for every grid size and every cell number c of the grid, the row and
\* the column of c are in 0..(N - 1) and the cell number of that position is
\* c; for every position of the grid, its cell number is a cell number of the
\* grid whose row and column are that position.
C14_CellPositionBijection ==
    /\ call = "rowByCellNumber" =>
          /\ ret[1] \in 0..(gridSize - 1)
          /\ cellNumberByPosition(ret[1], columnByCellNumber(args.cellNumber))
                = args.cellNumber
    /\ call = "columnByCellNumber" =>
          /\ ret[1] \in 0..(gridSize - 1)
          /\ cellNumberByPosition(rowByCellNumber(args.cellNumber), ret[1])
                = args.cellNumber
    /\ call = "cellNumberByPosition" =>
          /\ ret[1] \in 0..(gridSize * gridSize - 1)
          /\ rowByCellNumber(ret[1]) = args.row
          /\ columnByCellNumber(ret[1]) = args.column

\* C14 witness: on the grid of size 4 the position (2, 3) is cell 11.
C14_Witness ==
    /\ call = "cellNumberByPosition"
    /\ gridSize = 4
    /\ args.row = 2
    /\ args.column = 3
    /\ ret = Returned(11)

----------------------------------------------------------------------------
\* The grid turned by 180 degrees.
Rotated(g) ==
    [row \in Rows |-> [column \in Rows |-> g[gridSize - 1 - row][gridSize - 1 - column]]]

\* C15: the four chains and totalConnected that findConnectedCell computes on
\* a grid at (row, column) for a marker are those it computes on the grid
\* turned by 180 degrees at (N - 1 - row, N - 1 - column).
C15_RotationSymmetry ==
    call = "findConnectedCell" =>
        LET cell == ret[1]
            turned == findConnectedCell(Rotated(grid), gridSize - 1 - args.row,
                                        gridSize - 1 - args.column,
                                        args.targetMarker, args.maxChain)
        IN  /\ turned.verticalChain = cell.verticalChain
            /\ turned.horizontalChain = cell.horizontalChain
            /\ turned.diagonalLeftChain = cell.diagonalLeftChain
            /\ turned.diagonalRightChain = cell.diagonalRightChain
            /\ turned.totalConnected = cell.totalConnected

\* C15 witness: the centre with X above it and to its upper left and nothing
\* of X below it, so that the turned grid has the chains on the other side.
C15_Witness ==
    /\ call = "findConnectedCell"
    /\ args.row = 1
    /\ args.column = 1
    /\ args.targetMarker = "X"
    /\ grid[0][1] = "X"
    /\ grid[0][0] = "X"
    /\ grid[2][1] # "X"
    /\ grid[2][2] # "X"
    /\ ret[1].verticalChain = 1
    /\ ret[1].diagonalLeftChain = 1

----------------------------------------------------------------------------
Min(a, b) == IF a <= b THEN a ELSE b

----------------------------------------------------------------------------
\* C17: in the game loop of main a cell selection is requested only when the
\* board is not completed, and then a turn holder is set and a cell is
\* available; the selection returns an available cell, for a bot as for a
\* user, and the markCellByNumber after it returns true. The loop never ends
\* on an exception.
C17_SelectionOnOpenBoard ==
    /\ (pc = 1025 /\ ~isCompleted) =>
          (playerTurn # 0 /\ findAvailableCellNumbers # {})
    /\ pc = 1044 =>
          /\ ~isCompleted
          /\ call = "requireCellSelection"
          /\ args.currentPlayerTurn = playerTurn
          /\ Len(ret) = 1
          /\ ret[1] \in findAvailableCellNumbers
    /\ pc = 1045 => ret = ReturnedBool(TRUE)
    /\ pc # 0

\* C17 witness: a bot selected a cell on a board with marked cells, and the
\* cell was marked for it.
C17_Witness ==
    /\ pc = 1045
    /\ call = "markCellByNumber"
    /\ ret = ReturnedBool(TRUE)
    /\ players[args.currentPlayerTurn].bot
    /\ Cardinality(MarkedCells) >= 4

----------------------------------------------------------------------------
\* C18: on a board with an available cell, whatever the number of players and
\* the seat of the bot, Bot::requireCellSelection returns the number of a cell
\* of the grid that is empty.
C18_BotReturnsEmptyCell ==
    (call = "requireCellSelection" /\ findAvailableCellNumbers # {}) =>
        /\ Len(ret) = 1
        /\ ValidCell(ret[1])
        /\ grid[RowOf(ret[1])][ColumnOf(ret[1])] = Empty

\* C18 witness: the last of three players is the bot, cell 0 is marked, and
\* the bot returns an empty cell past it.
C18_Witness ==
    /\ call = "requireCellSelection"
    /\ Len(players) = 3
    /\ args.number = 3
    /\ grid[0][0] # Empty
    /\ Len(ret) = 1
    /\ ret[1] > 0
    /\ grid[RowOf(ret[1])][ColumnOf(ret[1])] = Empty

----------------------------------------------------------------------------
\* C19: when the bot's best available cell gives its marker a totalConnected
\* of 3 or more, above the best total of every opponent, the bot returns a
\* cell whose totalConnected for its marker is that best, the greatest over
\* the available cells.
C19_BotOwnScoringMove ==
    call = "requireCellSelection" =>
        \A best \in {BestTotals} : \A own \in best :
            (/\ findAvailableCellNumbers # {}
             /\ own.player = args.number
             /\ own.total >= 3
             /\ \A o \in best : o.player # own.player => o.total < own.total) =>
                /\ Len(ret) = 1
                /\ ret[1] \in findAvailableCellNumbers
                /\ TotalAt(ret[1], players[own.player].marker) = own.total
                /\ \A c \in findAvailableCellNumbers :
                      TotalAt(c, players[own.player].marker)
                          <= TotalAt(ret[1], players[own.player].marker)

\* C19 witness: the bot X has cells 0 and 1, the opponent O has cells 3 and 8
\* and no line to complete; the bot returns cell 2 and completes its row.
C19_Witness ==
    /\ call = "requireCellSelection"
    /\ Len(players) = 2
    /\ args.number = 1
    /\ grid[0][0] = "X"
    /\ grid[0][1] = "X"
    /\ grid[1][0] = "O"
    /\ grid[2][2] = "O"
    /\ Cardinality(MarkedCells) = 4
    /\ ret = Returned(2)

----------------------------------------------------------------------------
\* C20: a markCellByNumber that returns true changes the addressed cell and
\* the score and lastScore of the turn holder and nothing else: not another
\* cell, not another player, not the number, marker or kind of the turn
\* holder, not who holds the turn, not the grid size, the game mode or the
\* list of players.
C20_MarkFrame ==
    [][(call' = "markCellByNumber" /\ ret' = ReturnedBool(TRUE)) =>
        LET row == RowOf(args'.cellNumber)
            column == ColumnOf(args'.cellNumber)
        IN  /\ \A r \in Rows, c \in Rows :
                  (r # row \/ c # column) => grid'[r][c] = grid[r][c]
            /\ DOMAIN grid' = DOMAIN grid
            /\ \A r \in Rows : DOMAIN grid'[r] = DOMAIN grid[r]
            /\ Len(players') = Len(players)
            /\ \A i \in PlayerNumbers : i # playerTurn => players'[i] = players[i]
            /\ players'[playerTurn] =
                  [players[playerTurn] EXCEPT !.score = players'[playerTurn].score,
                                              !.lastScore = players'[playerTurn].lastScore]
            /\ playerTurn' = playerTurn
            /\ gridSize' = gridSize
            /\ variant' = variant
    ]_vars

\* C20 witness: a mark of O closed a line of O while X held the turn; the
\* score of X rose, and the cells of X and the score of O stayed.
C20_Witness ==
    /\ call = "markCellByNumber"
    /\ ret = ReturnedBool(TRUE)
    /\ playerTurn = 1
    /\ args.marker = "O"
    /\ players[1].score = 3
    /\ players[1].lastScore = 0
    /\ players[2].score = 0
    /\ players[2].lastScore = 0

----------------------------------------------------------------------------
\* C21: for a bot and two opponents, different from the bot and from each
\* other, _compareNextTurn returns the opponent of the smaller turn distance
\* (number - bot's number) mod the number of players, in whichever order the
\* two are given; of players 2 and 4 the bot of number 3 among 5 players gets
\* player 4.
C21_ShorterTurnDistance ==
    (/\ call = "compareNextTurn"
     /\ args.player1 # args.number
     /\ args.player2 # args.number
     /\ args.player1 # args.player2) =>
        /\ ret[1] \in {players[args.player1], players[args.player2]}
        /\ \A p \in {args.player1, args.player2} :
              TurnsAfter(args.number, ret[1].number) <= TurnsAfter(args.number, p)
        /\ ret[1] = compareNextTurn(args.number, players[args.player2],
                                    players[args.player1])
        /\ (totalPlayers = 5 /\ args.number = 3
            /\ {args.player1, args.player2} = {2, 4}) => ret[1].number = 4

\* C21 witness: the bot is player 3 of 5 and compares player 4 with player 2,
\* in this order.
C21_Witness ==
    /\ call = "compareNextTurn"
    /\ totalPlayers = 5
    /\ args.number = 3
    /\ args.player1 = 4
    /\ args.player2 = 2
    /\ ret[1].number = 4

----------------------------------------------------------------------------
\* C28: when one of the two players given to _compareNextTurn is the bot
\* itself and the other is not, the other is returned, be the bot the first
\* or the second of the two.
C28_BotIsNeverNearest ==
    (/\ call = "compareNextTurn"
     /\ (args.player1 = args.number) # (args.player2 = args.number)) =>
        /\ ret[1].number # args.number
        /\ args.player1 = args.number => ret[1] = players[args.player2]
        /\ args.player2 = args.number => ret[1] = players[args.player1]

\* C28 witness: the bot is the second of the two players and has the greater
\* number, and the first player is returned.
C28_Witness ==
    /\ call = "compareNextTurn"
    /\ args.player2 = args.number
    /\ args.player1 < args.number
    /\ ret[1] = players[args.player1]
    /\ ~ret[1].bot

----------------------------------------------------------------------------
\* The moves of main since the board was new or reset.
Moves == Len(turns)

\* C22: every game of the main loop ends. Each move takes exactly one cell
\* from the available ones; the moves since the last reset never exceed N*N,
\* and after N*N moves the board is completed; in Frenzy the board is
\* completed exactly when N*N moves were made; and, every selection
\* returning, a board that is not completed at the head of the loop is
\* completed later.
C22_GameTerminates ==
    /\ [][(pc = 1044 /\ pc' = 1045) =>
            /\ Moves' = Moves + 1
            /\ Cardinality(findAvailableCellNumbers')
                  = Cardinality(findAvailableCellNumbers) - 1]_vars
    /\ [](Moves <= gridSize * gridSize)
    /\ [](Moves = gridSize * gridSize => isCompleted)
    /\ [](variant = "Frenzy" => (isCompleted <=> Moves = gridSize * gridSize))
    /\ ((pc = 1025 /\ ~isCompleted) ~> (pc = 1025 /\ isCompleted))

\* C22 witness: a Classic game is completed at the head of the loop after
\* fewer than N*N moves.
C22_Witness ==
    /\ pc = 1025
    /\ variant = "Classic"
    /\ isCompleted
    /\ Moves >= 5
    /\ Moves < gridSize * gridSize

----------------------------------------------------------------------------
\* C23: in Classic and in Frenzy a completed board stays completed over
\* every markCellByNumber and togglePlayerTurn; isCompleted() goes from true
\* to false over reset only, and reset makes it false.
C23_CompletionIsStable ==
    /\ [][(isCompleted /\ call' \in {"markCellByNumber", "togglePlayerTurn"})
            => isCompleted']_vars
    /\ [][(isCompleted /\ ~isCompleted') => call' = "reset"]_vars
    /\ [][call' = "reset" => ~isCompleted']_vars

\* C23 witness: a Classic board was completed by a score, cells being left,
\* and a later mark of the same turn holder was accepted; the board is still
\* completed.
C23_Witness ==
    /\ variant = "Classic"
    /\ call = "markCellByNumber"
    /\ ret = ReturnedBool(TRUE)
    /\ playerTurn # 0
    /\ players[playerTurn].lastScore >= 3
    /\ isCompleted

----------------------------------------------------------------------------
Scorers == {i \in PlayerNumbers : players[i].score > 0}

\* C24: in a Classic game of the main loop at most one player has a score
\* above 0 at any time. On a completed board resultText names the player
\* that scored as the winner, and it reports a draw exactly when the grid is
\* full and every score is 0; this is the text main prints.
C24_ClassicSingleWinner ==
    variant = "Classic" =>
        /\ Cardinality(Scorers) <= 1
        /\ isCompleted =>
              /\ \A i \in Scorers : resultText = winText(players[i])
              /\ resultText = drawText <=> (NoEmptyCell /\ Scorers = {})
              /\ Scorers = {} => NoEmptyCell
        /\ pc = 1028 => (isCompleted /\ ret = Printed(resultText))

\* C24 witness: main printed that player 2, a bot, has won a Classic game
\* with cells left.
C24_Witness ==
    /\ variant = "Classic"
    /\ pc = 1028
    /\ Scorers = {2}
    /\ players[2].bot
    /\ ~NoEmptyCell
    /\ ret = Printed(winText(players[2]))

----------------------------------------------------------------------------
\* The cells that hold the marker of player i.
CellsOf(i) == {rc \in MarkedCells : grid[rc[1]][rc[2]] = players[i].marker}

\* C25: in every state of the main loop the marked cells are as many as the
\* moves since the last reset; every marked cell holds the marker of a
\* player, each player's cells being as many as its moves; the players move
\* in the order of the list, none twice in a row and none skipped, so the
\* numbers of cells of two players differ by 1 at most.
C25_MarksFollowTurns ==
    /\ Cardinality(MarkedCells) = Moves
    /\ \A rc \in MarkedCells : grid[rc[1]][rc[2]] \in Markers
    /\ \A i \in PlayerNumbers :
          Cardinality(CellsOf(i)) = Cardinality({k \in 1..Moves : turns[k] = i})
    /\ \A k \in 1..(Moves - 1) : turns[k + 1] = (turns[k] % totalPlayers) + 1
    /\ \A i, j \in PlayerNumbers :
          Cardinality(CellsOf(i)) - Cardinality(CellsOf(j)) \in {-1, 0, 1}

\* C25 witness: a Frenzy board is full after the ninth move; player 2 moved
\* first and last and has five cells, player 1 four.
C25_Witness ==
    /\ variant = "Frenzy"
    /\ Moves = 9
    /\ turns[1] = 2
    /\ turns[9] = 2
    /\ Cardinality(CellsOf(2)) = 5
    /\ Cardinality(CellsOf(1)) = 4

----------------------------------------------------------------------------
\* C26: the score of every player is 0 or at least 3, and its lastScore is
\* at most its score; over every call but reset no score goes down, and a
\* call adds 0 or at least 3 to a score.
C26_ScoresInThrees ==
    /\ [](\A i \in PlayerNumbers :
            /\ players[i].score = 0 \/ players[i].score >= 3
            /\ players[i].lastScore <= players[i].score)
    /\ [][call' # "reset" =>
            \A i \in PlayerNumbers :
                \/ players'[i].score = players[i].score
                \/ players'[i].score >= players[i].score + 3]_vars

\* C26 witness: a player scored twice, 3 and then more, with no reset
\* between.
C26_Witness ==
    /\ call = "markCellByNumber"
    /\ ret = ReturnedBool(TRUE)
    /\ playerTurn # 0
    /\ players[playerTurn].lastScore = 3
    /\ players[playerTurn].score >= 6

----------------------------------------------------------------------------
\* C27: for a marked cell and its marker, findConnectedCell with a maxChain
\* of 3, as gridLayoutText calls it, gives a totalConnected of 3 or more
\* exactly when findConnectedCell with the default maxChain does.
C27_CappedAgreesWithUnbounded ==
    call = "gridLayoutText" =>
        LET marker == grid[args.y][args.x]
            unbounded == findConnectedCell(grid, args.y, args.x, marker, IntMax)
        IN  ret[1] <=> unbounded.totalConnected >= 3

\* C27 witness: a row of five cells of a marker on the 5x5 grid, asked at
\* its left end: four cells follow, the capped call counts three of them.
C27_Witness ==
    /\ call = "gridLayoutText"
    /\ gridSize = 5
    /\ args.x = 0
    /\ findConnectedCell(grid, args.y, args.x, grid[args.y][args.x], IntMax)
          .horizontalChain = 4
    /\ findConnectedCell(grid, args.y, args.x, grid[args.y][args.x], 3)
          .horizontalChain = 3
    /\ ret = ReturnedBool(TRUE)

====
